---- MODULE Spec2Model ----
(***************************************************************************)
(* Model of memote/support/thermodynamics.py: the mapping of a reaction's  *)
(* metabolites to KEGG compound IDs (get_equilibrator_rxn_string) and the  *)
(* classification loop of find_incorrect_thermodynamic_reversibility.      *)
(* Strings are sequences of one-character strings.  The calls into         *)
(* equilibrator_api (CompoundMatcher.match, Reaction.parse_formula,        *)
(* check_full_reaction_balancing, reversibility_index) are external: each  *)
(* outcome they can have is a nondeterministic choice.                     *)
(***************************************************************************)
EXTENDS Integers, Sequences, FiniteSets, TLC

VARIABLES reactions, lngamma, i, pc, eq_rxn,
          incorrect_reversibility, incomplete_mapping,
          problematic_calculation, unbalanced, log

vars == <<reactions, lngamma, i, pc, eq_rxn,
          incorrect_reversibility, incomplete_mapping,
          problematic_calculation, unbalanced, log>>

----------------------------------------------------------------------------
(* Bounds *)

MaxReactions == 2
MaxMets == 2
MaxAnnLen == 2
MaxLnRISpread == 1

(* Default of the lngamma parameter *)
DefaultLngamma == 3

----------------------------------------------------------------------------
(* Strings *)

RECURSIVE Replace(_, _, _)
(* Python str.replace(old, new) for a non-empty old: left to right,        *)
(* non-overlapping occurrences.                                            *)
Replace(s, old, new) ==
    IF Len(s) < Len(old) THEN s
    ELSE IF SubSeq(s, 1, Len(old)) = old
         THEN new \o Replace(SubSeq(s, Len(old) + 1, Len(s)), old, new)
         ELSE <<s[1]>> \o Replace(Tail(s), old, new)

(* Python "c in x" for a one-character c *)
Contains(x, c) == \E k \in 1..Len(x) : x[k] = c

RECURSIVE lstrip(_, _)
lstrip(x, c) == IF x # <<>> /\ x[1] = c THEN lstrip(Tail(x), c) ELSE x

DigitVal == ("0" :> 0) @@ ("1" :> 1) @@ ("2" :> 2) @@ ("3" :> 3) @@ ("4" :> 4)
         @@ ("5" :> 5) @@ ("6" :> 6) @@ ("7" :> 7) @@ ("8" :> 8) @@ ("9" :> 9)

RECURSIVE int(_)
(* Python int() of a string of decimal digits *)
int(x) == IF Len(x) = 1 THEN DigitVal[x[1]]
          ELSE int(SubSeq(x, 1, Len(x) - 1)) * 10 + DigitVal[x[Len(x)]]

----------------------------------------------------------------------------
(* smallest_compound_ID *)

SortKey(x) == int(lstrip(x, "C"))

(* list.sort is stable: x goes after every element whose key is <= its own *)
InsertByKey(sorted, x) ==
    LET n == Cardinality({j \in 1..Len(sorted) : SortKey(sorted[j]) <= SortKey(x)})
    IN  SubSeq(sorted, 1, n) \o <<x>> \o SubSeq(sorted, n + 1, Len(sorted))

RECURSIVE SortByKey(_)
SortByKey(s) ==
    IF s = <<>> THEN <<>>
    ELSE InsertByKey(SortByKey(SubSeq(s, 1, Len(s) - 1)), s[Len(s)])

only_cIDs(kegg_ann_list) == SelectSeq(kegg_ann_list, LAMBDA x : Contains(x, "C"))

(* Faulty variant: the compound IDs are left in the order of the list *)
smallest_compound_ID_unsorted(kegg_ann_list) == only_cIDs(kegg_ann_list)

smallest_compound_ID(kegg_ann_list) == SortByKey(only_cIDs(kegg_ann_list))

----------------------------------------------------------------------------
(* get_equilibrator_rxn_string *)

(* An outcome of COMPOUND_MATCHER.match(name): it raises, or returns a     *)
(* frame whose CID column is the sequence CID (df['CID'].iloc[0] raises on *)
(* an empty frame).  NotCalled stands for a call that was not made.        *)
NotCalled == [raises |-> FALSE, CID |-> <<>>]

(* One pass of the loop body for metabolite met, where match is the outcome *)
(* COMPOUND_MATCHER.match has if it is called.  The result holds the new    *)
(* reaction string, the branch taken, the ID substituted (<<>> if none) and *)
(* whether the matcher was called.                                          *)
MapMetabolite(kegg_rxn, met, match) ==
    LET kegg_ann_id == met.annotation
    IN  IF kegg_ann_id.type = "str" /\ Contains(kegg_ann_id.str, "C")
        THEN [kegg_rxn |-> Replace(kegg_rxn, met.id, kegg_ann_id.str),
              branch |-> "str", used |-> kegg_ann_id.str, consulted |-> FALSE,
              match |-> NotCalled]
        ELSE IF kegg_ann_id.type = "list"
                /\ \E k \in 1..Len(kegg_ann_id.list) : Contains(kegg_ann_id.list[k], "C")
        THEN LET cid == smallest_compound_ID(kegg_ann_id.list)[1]
             IN [kegg_rxn |-> Replace(kegg_rxn, met.id, cid),
                 branch |-> "list", used |-> cid, consulted |-> FALSE,
                 match |-> NotCalled]
        ELSE IF met.name = <<>>
        THEN [kegg_rxn |-> kegg_rxn,
              branch |-> "noname", used |-> <<>>, consulted |-> FALSE,
              match |-> NotCalled]
        ELSE IF match.raises \/ match.CID = <<>>
        THEN [kegg_rxn |-> kegg_rxn,
              branch |-> "name", used |-> <<>>, consulted |-> TRUE,
              match |-> match]
        ELSE LET kegg_match_id == match.CID[1]
             IN [kegg_rxn |-> Replace(kegg_rxn, met.id, kegg_match_id),
                 branch |-> "name", used |-> kegg_match_id, consulted |-> TRUE,
                 match |-> match]

RECURSIVE MapMetabolites(_, _, _, _)
(* The for loop over rxn.metabolites, up to and including metabolite n:    *)
(* the sequence of the loop body's results.                                *)
MapMetabolites(rxn, matches, n, start) ==
    IF n = 0 THEN <<>>
    ELSE LET before == MapMetabolites(rxn, matches, n - 1, start)
             kegg_rxn == IF n = 1 THEN start ELSE before[n - 1].kegg_rxn
         IN  Append(before, MapMetabolite(kegg_rxn, rxn.metabolites[n], matches[n]))

Arrow2 == <<"-", "-", ">">>
Arrow1 == <<"-", ">">>
Worra2 == <<"<", "-", "-">>
Worra1 == <<"<", "-">>

get_equilibrator_rxn_string(rxn, matches) ==
    LET steps == MapMetabolites(rxn, matches, Len(rxn.metabolites), rxn.reaction)
        kegg_rxn == IF steps = <<>> THEN rxn.reaction ELSE steps[Len(steps)].kegg_rxn
    IN  Replace(Replace(kegg_rxn, Arrow2, Arrow1), Worra2, Worra1)

----------------------------------------------------------------------------
(* Inputs *)

(* KEGG IDs: a prefix C (compound), D (drug) or G (glycan) and digits *)
KeggIDs == {<<"C", "2">>, <<"C", "1", "0">>, <<"D", "1">>}

NoAnnotation == [type |-> "NoneType", str |-> <<>>, list |-> <<>>]
StrAnnotation(x) == [type |-> "str", str |-> x, list |-> <<>>]
ListAnnotation(l) == [type |-> "list", str |-> <<>>, list |-> l]

Annotations ==
    {NoAnnotation}
    \cup {StrAnnotation(x) : x \in KeggIDs}
    \cup {ListAnnotation(l) : l \in UNION {[1..k -> KeggIDs] : k \in 0..MaxAnnLen}}

Names == {<<>>, <<"n">>}

AllMets == [annotation : Annotations, name : Names]

(* The metabolites of the classification runs: one mapped by its           *)
(* annotation, one that needs the name match, one that cannot be mapped.   *)
CoreMets ==
    {[annotation |-> StrAnnotation(<<"C", "2">>), name |-> <<"n">>],
     [annotation |-> NoAnnotation, name |-> <<"n">>],
     [annotation |-> NoAnnotation, name |-> <<>>]}

MetIdChars == <<"a", "b", "c", "d", "e">>

(* rxn.metabolites: the metabolites f[1], ..., f[k] with distinct ids *)
Metabolites(f) ==
    [j \in DOMAIN f |-> [id |-> <<MetIdChars[j]>>,
                         annotation |-> f[j].annotation,
                         name |-> f[j].name]]

Arrows == {<<"-", "-", ">">>, <<"<", "-", "-">>, <<"<", "=", ">">>}

CoreArrows == {<<"-", "-", ">">>, <<"<", "=", ">">>}

RECURSIVE JoinIds(_, _)
JoinIds(mets, from) ==
    IF from > Len(mets) THEN <<>>
    ELSE mets[from].id
         \o (IF from < Len(mets) THEN <<" ", "+", " ">> ELSE <<>>)
         \o JoinIds(mets, from + 1)

(* rxn.reaction: the first metabolite is the substrate, the others the     *)
(* products.                                                               *)
ReactionString(mets, arrow) ==
    mets[1].id \o <<" ">> \o arrow \o <<" ">> \o JoinIds(mets, 2)

(* A reaction of the input list; its id is its place in the list *)
Reaction(id, mets, arrow) ==
    [id |-> id,
     reaction |-> ReactionString(mets, arrow),
     metabolites |-> mets,
     reversibility |-> (arrow = <<"<", "=", ">">>)]

MatchOutcomes ==
    {[raises |-> TRUE, CID |-> <<>>],
     [raises |-> FALSE, CID |-> <<>>],
     [raises |-> FALSE, CID |-> <<<<"C", "1", "0">>, <<"C", "2">>>>]}

LnRIValues == (lngamma - MaxLnRISpread)..(lngamma + MaxLnRISpread)

----------------------------------------------------------------------------
(* find_incorrect_thermodynamic_reversibility *)

NoCalls == [steps |-> <<>>, kegg_rxn |-> <<>>, parse |-> "none",
            balancing |-> "none", ri |-> "none", ln_RI |-> 0,
            compared |-> FALSE]

InitLists ==
    /\ i = 1
    /\ pc = "parse"
    /\ eq_rxn = <<>>
    /\ incomplete_mapping = <<>>
    /\ problematic_calculation = <<>>
    /\ incorrect_reversibility = <<>>
    /\ unbalanced = <<>>
    /\ log = [k \in 1..Len(reactions) |-> NoCalls]

(* Classification runs: lists of reactions of one core metabolite each *)
Init ==
    /\ \E n \in 0..MaxReactions :
          \E f \in [1..n -> CoreMets \X CoreArrows] :
             reactions = [k \in 1..n |->
                             Reaction(k, Metabolites(<<f[k][1]>>), f[k][2])]
    /\ lngamma \in {DefaultLngamma - 1, DefaultLngamma}
    /\ InitLists

(* Mapping runs: one reaction of up to MaxMets metabolites, one of them of *)
(* any kind and at any place among core metabolites                        *)
InitMap ==
    /\ \E k \in 1..MaxMets :
          \E f \in [1..k -> CoreMets] :
             \E p \in 1..k :
                \E m \in AllMets :
                   \E arrow \in Arrows :
                      reactions = <<Reaction(1, Metabolites([f EXCEPT ![p] = m]),
                                             arrow)>>
    /\ lngamma = DefaultLngamma
    /\ InitLists

rxn == reactions[i]

InLoop(at) == pc = at /\ i <= Len(reactions)

NextReaction == i' = i + 1 /\ pc' = "parse"

Mapped(matches) ==
    [log[i] EXCEPT !.steps = MapMetabolites(rxn, matches, Len(rxn.metabolites),
                                            rxn.reaction),
                   !.kegg_rxn = get_equilibrator_rxn_string(rxn, matches)]

(* Faulty variant: the except branch lacks its continue, so the loop goes  *)
(* on to the balancing check with the eq_rxn it had                        *)
parse_formula_raises_no_continue ==
    /\ InLoop("parse")
    /\ \E matches \in [1..Len(rxn.metabolites) -> MatchOutcomes] :
          log' = [log EXCEPT ![i] = [Mapped(matches) EXCEPT !.parse = "raise"]]
    /\ incomplete_mapping' = Append(incomplete_mapping, rxn)
    /\ pc' = "balancing"
    /\ UNCHANGED <<reactions, lngamma, i, eq_rxn, incorrect_reversibility,
                   problematic_calculation, unbalanced>>

(* Reaction.parse_formula(get_equilibrator_rxn_string(rxn)) raises *)
parse_formula_raises ==
    /\ InLoop("parse")
    /\ \E matches \in [1..Len(rxn.metabolites) -> MatchOutcomes] :
          log' = [log EXCEPT ![i] = [Mapped(matches) EXCEPT !.parse = "raise"]]
    /\ incomplete_mapping' = Append(incomplete_mapping, rxn)
    /\ NextReaction
    /\ UNCHANGED <<reactions, lngamma, eq_rxn, incorrect_reversibility,
                   problematic_calculation, unbalanced>>

(* Reaction.parse_formula(get_equilibrator_rxn_string(rxn)) returns *)
parse_formula_returns ==
    /\ InLoop("parse")
    /\ \E matches \in [1..Len(rxn.metabolites) -> MatchOutcomes] :
          /\ log' = [log EXCEPT ![i] = [Mapped(matches) EXCEPT !.parse = "ok"]]
          /\ eq_rxn' = get_equilibrator_rxn_string(rxn, matches)
    /\ pc' = "balancing"
    /\ UNCHANGED <<reactions, lngamma, i, incorrect_reversibility,
                   incomplete_mapping, problematic_calculation, unbalanced>>

(* eq_rxn.check_full_reaction_balancing() is false *)
check_full_reaction_balancing_false ==
    /\ InLoop("balancing")
    /\ log' = [log EXCEPT ![i].balancing = "false"]
    /\ unbalanced' = Append(unbalanced, rxn)
    /\ NextReaction
    /\ UNCHANGED <<reactions, lngamma, eq_rxn, incorrect_reversibility,
                   incomplete_mapping, problematic_calculation>>

(* eq_rxn.check_full_reaction_balancing() is true *)
check_full_reaction_balancing_true ==
    /\ InLoop("balancing")
    /\ log' = [log EXCEPT ![i].balancing = "true"]
    /\ pc' = "reversibility_index"
    /\ UNCHANGED <<reactions, lngamma, i, eq_rxn, incorrect_reversibility,
                   incomplete_mapping, problematic_calculation, unbalanced>>

(* Faulty variant: the except branch lacks its continue, so the test of    *)
(* line 157 is made on the ln_RI left by an earlier reaction               *)
reversibility_index_raises_no_continue ==
    /\ InLoop("reversibility_index")
    /\ log' = [log EXCEPT ![i].ri = "raise", ![i].compared = TRUE]
    /\ problematic_calculation' = Append(problematic_calculation, rxn)
    /\ incorrect_reversibility' =
          IF (log[i].ln_RI < lngamma) # rxn.reversibility
          THEN Append(incorrect_reversibility, rxn)
          ELSE incorrect_reversibility
    /\ NextReaction
    /\ UNCHANGED <<reactions, lngamma, eq_rxn, incomplete_mapping, unbalanced>>

(* Faulty variant: the except branch continues without the append *)
reversibility_index_raises_no_append ==
    /\ InLoop("reversibility_index")
    /\ log' = [log EXCEPT ![i].ri = "raise"]
    /\ NextReaction
    /\ UNCHANGED <<reactions, lngamma, eq_rxn, incorrect_reversibility,
                   incomplete_mapping, problematic_calculation, unbalanced>>

(* eq_rxn.reversibility_index() raises *)
reversibility_index_raises ==
    /\ InLoop("reversibility_index")
    /\ log' = [log EXCEPT ![i].ri = "raise"]
    /\ problematic_calculation' = Append(problematic_calculation, rxn)
    /\ NextReaction
    /\ UNCHANGED <<reactions, lngamma, eq_rxn, incorrect_reversibility,
                   incomplete_mapping, unbalanced>>

(* The test of line 157 *)
Disagrees(ln_RI, cutoff, reversibility) == (ln_RI < cutoff) # reversibility

(* eq_rxn.reversibility_index() returns ln_RI, which is compared with the *)
(* annotated reversibility                                                 *)
reversibility_index_returns ==
    /\ InLoop("reversibility_index")
    /\ \E ln_RI \in LnRIValues :
          /\ log' = [log EXCEPT ![i].ri = "value", ![i].ln_RI = ln_RI,
                                ![i].compared = TRUE]
          /\ incorrect_reversibility' =
                IF Disagrees(ln_RI, lngamma, rxn.reversibility)
                THEN Append(incorrect_reversibility, rxn)
                ELSE incorrect_reversibility
    /\ NextReaction
    /\ UNCHANGED <<reactions, lngamma, eq_rxn, incomplete_mapping,
                   problematic_calculation, unbalanced>>

(* The loop is over: the four lists are returned *)
Return ==
    /\ pc = "parse"
    /\ i > Len(reactions)
    /\ pc' = "done"
    /\ UNCHANGED <<reactions, lngamma, i, eq_rxn, incorrect_reversibility,
                   incomplete_mapping, problematic_calculation, unbalanced, log>>

Next ==
    \/ parse_formula_raises
    \/ parse_formula_returns
    \/ check_full_reaction_balancing_false
    \/ check_full_reaction_balancing_true
    \/ reversibility_index_raises
    \/ reversibility_index_returns
    \/ Return

Spec == Init /\ [][Next]_vars

SpecMap == InitMap /\ [][Next]_vars

----------------------------------------------------------------------------
(* What the run has recorded about the k-th reaction of the input *)

InList(list, r) == \E j \in 1..Len(list) : list[j] = r

InSomeList(r) ==
    \/ InList(incorrect_reversibility, r)
    \/ InList(incomplete_mapping, r)
    \/ InList(problematic_calculation, r)
    \/ InList(unbalanced, r)

(* The loop has finished with reaction k *)
Classified(k) == k \in 1..(i - 1)

Parsed(k) == log[k].parse = "ok"
Balanced(k) == log[k].balancing = "true"
Computed(k) == log[k].ri = "value"

(* The annotated reversibility equals the test the code makes on ln_RI *)
Agrees(k) ==
    /\ Parsed(k) /\ Balanced(k) /\ Computed(k)
    /\ reactions[k].reversibility = (log[k].ln_RI < lngamma)

----------------------------------------------------------------------------
(* C1, as stated: when the lists are returned, every input reaction is a   *)
(* member of one of the four lists.                                        *)
C1_EveryReactionInAList ==
    pc = "done" => \A k \in 1..Len(reactions) : InSomeList(reactions[k])

(* C1, amended: every classified reaction is a member of one of the four   *)
(* lists unless it parsed, was balanced, had its index computed and its    *)
(* annotated reversibility equals (ln_RI < lngamma); such a reaction is in *)
(* none of the lists.                                                      *)
C1_InAListUnlessAgrees ==
    \A k \in 1..Len(reactions) :
        Classified(k) => (InSomeList(reactions[k]) <=> ~Agrees(k))

C1_Witness ==
    /\ pc = "done"
    /\ \E k \in 1..Len(reactions) : Agrees(k) /\ ~InSomeList(reactions[k])
    /\ \E k \in 1..Len(reactions) : ~Agrees(k) /\ InSomeList(reactions[k])

(* C2: a reaction that parsed, is balanced and has a computed ln_RI is in  *)
(* incorrect_reversibility exactly when its annotated reversibility        *)
(* differs from (ln_RI <= lngamma), the boundary ln_RI = lngamma included. *)
C2_IncorrectIffDiffersFromAtMostCutoff ==
    \A k \in 1..Len(reactions) :
        (Classified(k) /\ Parsed(k) /\ Balanced(k) /\ Computed(k)) =>
            (InList(incorrect_reversibility, reactions[k])
                <=> reactions[k].reversibility # (log[k].ln_RI <= lngamma))

(* C3: a reaction is in incomplete_mapping exactly when at least one of    *)
(* its metabolites got no KEGG compound ID from its annotation or its name *)
Unmapped(k) ==
    \E j \in 1..Len(log[k].steps) : log[k].steps[j].used = <<>>

C3_IncompleteIffSomeMetaboliteUnmapped ==
    \A k \in 1..Len(reactions) :
        Classified(k) =>
            (InList(incomplete_mapping, reactions[k]) <=> Unmapped(k))

(* C4: a reaction is in problematic_calculation exactly when its formula   *)
(* parsed, the balancing check returned true and reversibility_index       *)
(* raised; such a reaction is never compared with its annotated            *)
(* reversibility.                                                          *)
C4_ProblematicIffIndexRaised ==
    \A k \in 1..Len(reactions) :
        /\ InList(problematic_calculation, reactions[k])
              <=> (Parsed(k) /\ Balanced(k) /\ log[k].ri = "raise")
        /\ InList(problematic_calculation, reactions[k]) => ~log[k].compared
        /\ log[k].ri = "raise" => ~log[k].compared

C4_Witness ==
    /\ pc = "done"
    /\ \E k \in 1..Len(reactions) :
          /\ log[k].ri = "raise"
          /\ InList(problematic_calculation, reactions[k])
    /\ \E k \in 1..Len(reactions) : log[k].compared

(* C5: the balancing check is never invoked for a reaction whose parse     *)
(* raised, reversibility_index is never invoked for a reaction that is not *)
(* balanced, each stage is reached only after the one before it, and       *)
(* unbalanced holds exactly the reactions that parsed and failed the       *)
(* balancing check.                                                        *)
C5_StagesInSequence ==
    \A k \in 1..Len(reactions) :
        /\ log[k].parse = "raise" => log[k].balancing = "none"
        /\ log[k].balancing # "none" => Parsed(k)
        /\ log[k].balancing = "false" => log[k].ri = "none"
        /\ log[k].ri # "none" => Balanced(k)
        /\ InList(unbalanced, reactions[k])
              <=> (Parsed(k) /\ log[k].balancing = "false")

C5_Witness ==
    /\ pc = "done"
    /\ \E k \in 1..Len(reactions) :
          log[k].parse = "raise" /\ InList(incomplete_mapping, reactions[k])
    /\ \E k \in 1..Len(reactions) :
          log[k].balancing = "false" /\ InList(unbalanced, reactions[k])

----------------------------------------------------------------------------
(* The priority of C6, stated on the metabolite *)

ByString(met) ==
    met.annotation.type = "str" /\ Contains(met.annotation.str, "C")

ByList(met) ==
    /\ ~ByString(met)
    /\ met.annotation.type = "list"
    /\ \E e \in 1..Len(met.annotation.list) : Contains(met.annotation.list[e], "C")

ByName(met) == ~ByString(met) /\ ~ByList(met) /\ met.name # <<>>

(* The number of a KEGG ID: its digits, after the one-letter prefix *)
Number(id) == int(Tail(id))

(* id is a compound ID of the list and no compound ID of the list has a    *)
(* lower number                                                            *)
LowestCompoundID(id, list) ==
    /\ \E e \in 1..Len(list) : list[e] = id
    /\ id[1] = "C"
    /\ \A e \in 1..Len(list) : list[e][1] = "C" => Number(id) <= Number(list[e])

(* C6: once a reaction has been mapped, each of its metabolites was        *)
(* resolved by the priority (1) a string annotation containing "C" is the  *)
(* ID used, (2) otherwise the numerically lowest compound ID of a list     *)
(* annotation with an entry containing "C" is used, (3) otherwise, for a   *)
(* non-empty name, the first CID the matcher returned is used; the matcher *)
(* is not consulted in cases (1) and (2) nor for an empty name.            *)
C6_ResolutionPriority ==
    \A k \in 1..Len(reactions) :
        log[k].parse # "none" =>
            /\ Len(log[k].steps) = Len(reactions[k].metabolites)
            /\ \A j \in 1..Len(reactions[k].metabolites) :
                  LET met == reactions[k].metabolites[j]
                      step == log[k].steps[j]
                  IN  /\ ByString(met) =>
                            step.used = met.annotation.str /\ ~step.consulted
                      /\ ByList(met) =>
                            /\ LowestCompoundID(step.used, met.annotation.list)
                            /\ ~step.consulted
                      /\ ByName(met) =>
                            /\ step.consulted
                            /\ (~step.match.raises /\ step.match.CID # <<>>)
                                  => step.used = step.match.CID[1]
                      /\ met.name = <<>> => ~step.consulted

C6_Witness ==
    /\ log[1].parse # "none"
    /\ Len(reactions[1].metabolites) > 1
    /\ \E j \in 1..Len(reactions[1].metabolites) :
          /\ reactions[1].metabolites[j].annotation.list
                = <<<<"C", "1", "0">>, <<"C", "2">>>>
          /\ log[1].steps[j].used = <<"C", "2">>
    /\ \E j \in 1..Len(reactions[1].metabolites) :
          /\ ByName(reactions[1].metabolites[j])
          /\ log[1].steps[j].used = <<"C", "1", "0">>
====
